---- MODULE Spec2Model ----
(***************************************************************************)
(* Model of src/reg.py: a Streamlit script that reads a transfer function  *)
(* G(s) = num/den, shows its symbolic form, poles and step response,       *)
(* recommends a regulator, builds a PID from three sliders and closes the  *)
(* unity-feedback loop.                                                    *)
(*                                                                         *)
(* Coefficients and gains are floats in the script; the model uses         *)
(* integers (every comparison and product of the script is exact on them). *)
(* Polynomials are coefficient sequences, highest degree first.            *)
(* Results of the numerical routines (control.step_info, step_response)    *)
(* are not computed: their value for the current system is the variable    *)
(* `oracle`, fixed when the system is entered.                             *)
(***************************************************************************)
EXTENDS Integers, Sequences, FiniteSets, TLC

\* ------------------------------------------------------------- bounds
\* longest coefficient list entered in a text field
MaxLen == 2
\* largest slider position tried for Kp, Ki, Kd
MaxGain == 1
\* largest overshoot / settling time reported by step_info
MaxOvershoot == 21
MaxSettling == 3
\* pyplot figures that may stay open across reruns of the script
MaxFigs == 4

\* ------------------------------------------- thresholds of the advisor
OvershootLow == 1
SettlingFast == 2
OvershootMid == 10
OvershootHigh == 20

\* text-field coefficients: a negative, a zero and a positive value
Coefs == {-1, 0, 1}
Gains == 0..MaxGain

\* ---------------------------------------------------------- optionals
None == <<>>
Some(x) == <<x>>
IsSet(v) == v # <<>>

\* ------------------------------------------------------- polynomials
SeqsUpTo(S, n) == UNION {[1..k -> S] : k \in 1..n}
Polys == SeqsUpTo(Coefs, MaxLen)

IsZero(p) == \A i \in 1..Len(p) : p[i] = 0

RECURSIVE Trim(_)
\* leading zeros removed, one coefficient always kept
Trim(p) == IF Len(p) > 1 /\ p[1] = 0 THEN Trim(Tail(p)) ELSE p

Zeros(n) == [i \in 1..n |-> 0]
PadLeft(p, n) == Zeros(n - Len(p)) \o p

Max(a, b) == IF a >= b THEN a ELSE b
Abs(a) == IF a < 0 THEN -a ELSE a

\* numpy.polyadd: the shorter list is aligned on the constant term
PolyAdd(p, q) ==
    LET n == Max(Len(p), Len(q))
        pp == PadLeft(p, n)
        qq == PadLeft(q, n)
    IN [i \in 1..n |-> pp[i] + qq[i]]

Scale(c, p) == [i \in 1..Len(p) |-> c * p[i]]

RECURSIVE ConvSum(_, _, _, _)
ConvSum(p, q, k, i) ==
    IF i > Len(p) THEN 0
    ELSE (IF k - i + 1 >= 1 /\ k - i + 1 <= Len(q) THEN p[i] * q[k - i + 1] ELSE 0)
         + ConvSum(p, q, k, i + 1)

\* PolyMul with one coefficient too many
PolyMul_long(p, q) == [k \in 1..(Len(p) + Len(q)) |-> ConvSum(p, q, k, 1)]

\* numpy.polymul: convolution of the coefficient lists
PolyMul(p, q) == [k \in 1..(Len(p) + Len(q) - 1) |-> ConvSum(p, q, k, 1)]

\* degree of a polynomial: the length of its trimmed list, less one
Degree(p) == Len(Trim(p)) - 1

RECURSIVE IntGcd(_, _)
IntGcd(a, b) == IF b = 0 THEN a ELSE IntGcd(b, a % b)

RECURSIVE Content(_)
\* gcd of the absolute values of the coefficients
Content(p) == IF Len(p) = 0 THEN 0 ELSE IntGcd(Abs(p[1]), Content(Tail(p)))

\* p (not zero) divided by its content, leading coefficient made positive
Primitive(p) ==
    LET c == Content(p) * (IF p[1] < 0 THEN -1 ELSE 1)
    IN [i \in 1..Len(p) |-> p[i] \div c]

\* b shifted to the degree of r
ShiftTo(b, r) == b \o Zeros(Len(r) - Len(b))

RECURSIVE PRem(_, _)
\* pseudo-remainder of r by b (b trimmed, not zero)
PRem(r, b) ==
    LET rt == Trim(r)
    IN IF IsZero(rt) \/ Len(rt) < Len(b) THEN rt
       ELSE PRem(Tail(PolyAdd(Scale(b[1], rt), Scale(-rt[1], ShiftTo(b, rt)))), b)

RECURSIVE PolyGcd(_, _)
\* greatest common divisor of two polynomials (not both zero), primitive
PolyGcd(a, b) ==
    IF IsZero(b) THEN Primitive(Trim(a)) ELSE PolyGcd(Trim(b), PRem(a, Trim(b)))

RECURSIVE Quo(_, _)
\* quotient of a by a divisor g of a (both trimmed)
Quo(a, g) ==
    IF Len(a) < Len(g) THEN <<>>
    ELSE LET c == a[1] \div g[1]
         IN <<c>> \o Quo(Tail(PolyAdd(a, Scale(-c, ShiftTo(g, a)))), g)

\* ------------------------------------------- control.TransferFunction
\* The constructor rejects an all-zero denominator (ValueError), replaces
\* the denominator of an all-zero numerator by 1, and strips the leading
\* zeros of both coefficient lists.
NoError == ""
ZeroDenominator == "ValueError: zero denominator"
NonProper == "ValueError: transfer function is non-proper"
BroadcastError == "ValueError: operands could not be broadcast together"

\* TransferFunction without the zero-denominator check
TransferFunction_nocheck(n, d) ==
    IF IsZero(n) THEN [err |-> NoError, num |-> <<0>>, den |-> <<1>>]
    ELSE [err |-> NoError, num |-> Trim(n), den |-> Trim(d)]

TransferFunction(n, d) ==
    IF IsZero(d) THEN [err |-> ZeroDenominator, num |-> <<>>, den |-> <<>>]
    ELSE IF IsZero(n) THEN [err |-> NoError, num |-> <<0>>, den |-> <<1>>]
    ELSE [err |-> NoError, num |-> Trim(n), den |-> Trim(d)]

\* pid * system: numerators and denominators multiplied, nothing cancelled
TfMul(a, b) == TransferFunction(PolyMul(a.num, b.num), PolyMul(a.den, b.den))

\* Feedback with the sign of positive feedback
Feedback_positive(sys) ==
    TransferFunction(PolyMul(sys.num, <<1>>),
                     PolyAdd(PolyMul(<<1>>, sys.den), Scale(-1, PolyMul(<<1>>, sys.num))))

\* control.feedback(sys, 1): negative feedback through the constant 1
Feedback(sys) ==
    TransferFunction(PolyMul(sys.num, <<1>>),
                     PolyAdd(PolyMul(<<1>>, sys.den), PolyMul(<<1>>, sys.num)))

\* line 178, for a controller and a plant
ClosedLoop(controller, plant) == Feedback(TfMul(controller, plant))

\* ------------------------------------------------------------ create_pid
\* create_pid with the gains in the order of its parameters
create_pid_order(Kp, Ki, Kd) == TransferFunction(<<Kp, Ki, Kd>>, <<1, 0>>)

create_pid(Kp, Ki, Kd) == TransferFunction(<<Kd, Kp, Ki>>, <<1, 0>>)

\* --------------------------------------------------- conseil_regulateur
\* A metric of control.step_info: a number, NaN (undefined), or a key that
\* is missing from the dictionary.
Num(x) == [st |-> "num", v |-> x]
NaN == [st |-> "nan", v |-> 0]
Absent == [st |-> "absent", v |-> 0]

\* dict.get(key, default)
Get(info, key, default) == IF info[key].st = "absent" THEN default ELSE info[key]

\* float comparisons: every comparison with NaN is false
Lt(a, c) == a.st = "num" /\ a.v < c
Gt(a, c) == a.st = "num" /\ a.v > c

RationaleP == "Le systeme est deja stable et rapide : correcteur P suffisant."
RationalePI == "Erreur statique possible, dynamique stable : PI adapte."
RationalePD == "Systeme oscillant : derivee necessaire."
RationalePID == "Cas general : PID pour precision + stabilite."

\* conseil_regulateur with <= in the second test
conseil_regulateur_le(info) ==
    LET overshoot == Get(info, "Overshoot", Num(0))
        settling == Get(info, "SettlingTime", Num(0))
    IN IF Lt(overshoot, OvershootLow) /\ Lt(settling, SettlingFast)
       THEN [reg_type |-> "P", explanation |-> RationaleP]
       ELSE IF Lt(overshoot, OvershootMid + 1)
       THEN [reg_type |-> "PI", explanation |-> RationalePI]
       ELSE IF Gt(overshoot, OvershootHigh)
       THEN [reg_type |-> "PD", explanation |-> RationalePD]
       ELSE [reg_type |-> "PID", explanation |-> RationalePID]

conseil_regulateur(info) ==
    LET overshoot == Get(info, "Overshoot", Num(0))
        settling == Get(info, "SettlingTime", Num(0))
    IN IF Lt(overshoot, OvershootLow) /\ Lt(settling, SettlingFast)
       THEN [reg_type |-> "P", explanation |-> RationaleP]
       ELSE IF Lt(overshoot, OvershootMid)
       THEN [reg_type |-> "PI", explanation |-> RationalePI]
       ELSE IF Gt(overshoot, OvershootHigh)
       THEN [reg_type |-> "PD", explanation |-> RationalePD]
       ELSE [reg_type |-> "PID", explanation |-> RationalePID]

\* ---------------------------------------------------- symbolic_analysis
\* sp.simplify of the ratio of two polynomials: the common polynomial
\* factor is cancelled (the scalar SymPy leaves on the result is not
\* modelled: the quotients by the primitive gcd are kept).
\* Simplify that divides only the numerator by the common factor
Simplify_numonly(n, d) ==
    IF IsZero(n) THEN [num |-> <<0>>, den |-> <<1>>]
    ELSE [num |-> Quo(Trim(n), PolyGcd(Trim(n), Trim(d))), den |-> Trim(d)]

Simplify(n, d) ==
    IF IsZero(n) THEN [num |-> <<0>>, den |-> <<1>>]
    ELSE LET g == PolyGcd(Trim(n), Trim(d))
         IN [num |-> Quo(Trim(n), g), den |-> Quo(Trim(d), g)]

\* Gs, its antiderivative and its derivative (the last two are kept as the
\* operation applied to Gs)
symbolic_analysis(n, d) ==
    LET Gs == Simplify(n, d)
    IN [Gs |-> Gs,
        integ |-> [op |-> "integrate", of |-> Gs],
        deriv |-> [op |-> "diff", of |-> Gs]]

\* -------------------------------------------------------- tf_to_sympy
\* One term per entry of sys.num[0].  python-control keeps num[output][input]
\* as the coefficient array, so sys.num[0] has the single entry num[0][0]
\* and the "sum" is that whole array times s**0; num / den is then the
\* element-wise quotient of the two arrays under NumPy broadcasting.
Sign(a) == IF a < 0 THEN -1 ELSE IF a > 0 THEN 1 ELSE 0

Ratio(a, b) ==
    IF b = 0 THEN [n |-> Sign(a), d |-> 0]
    ELSE LET g == IntGcd(Abs(a), Abs(b)) * Sign(b)
         IN [n |-> a \div g, d |-> b \div g]

Broadcastable(m, n) == m = n \/ m = 1 \/ n = 1

tf_to_sympy(sys) ==
    LET a == sys.num
        b == sys.den
        n == Max(Len(a), Len(b))
        At(p, i) == IF Len(p) = 1 THEN p[1] ELSE p[i]
    IN IF ~Broadcastable(Len(a), Len(b))
       THEN [err |-> BroadcastError, value |-> <<>>]
       ELSE [err |-> NoError, value |-> [i \in 1..n |-> Ratio(At(a, i), At(b, i))]]

\* ------------------------------------------- numerical routines, pyplot
\* control.step_info / step_response convert to state space, which raises
\* for more numerator than denominator coefficients
Improper(sys) == Len(sys.num) > Len(sys.den)

\* plt.figure() left out: the current figure is drawn on again
PltFigure_reuse(p) == p

\* plt.figure(): a new, empty current figure; the old ones stay open
PltFigure(p) == [figs |-> p.figs + 1, lines |-> 0]
\* plt.plot(t, y): one more curve on the current figure
PltPlot(p) == [p EXCEPT !.lines = @ + 1]
\* st.pyplot(plt): what is rendered is the current figure
Rendered(sys, p) == [of |-> sys, lines |-> p.lines]

\* ------------------------------------------------------------- inputs
Metrics(max) == {Num(x) : x \in 0..max} \cup {NaN, Absent}
Infos == [Overshoot : Metrics(MaxOvershoot), SettlingTime : Metrics(MaxSettling)]
\* what step_info may report for the system of a run of the script
OracleInfos == {[Overshoot |-> Num(0), SettlingTime |-> Num(1)],
                [Overshoot |-> NaN, SettlingTime |-> NaN]}

ValidDens == {d \in Polys : ~IsZero(d)}
Plants == {TransferFunction(n, d) : n \in Polys, d \in ValidDens}
\* the PIDs of line 177 and the unit controller C(s) = 1
Controllers == {create_pid(kp, ki, kd) : kp \in Gains, ki \in Gains, kd \in Gains}
               \cup {TransferFunction(<<1>>, <<1>>)}

\* --------------------------------------------------------------- state
VARIABLES
    pc,           \* position of the script run
    num, den,     \* lines 105-106: the parsed coefficient lists
    oracle,       \* what control.step_info computes for this system
    system,       \* line 108
    Gs_sym,       \* line 113
    analysis,     \* line 120: Gs, integ, deriv
    poles,        \* line 141 (the number of roots found)
    step_info,    \* line 147
    plot1,        \* lines 152-159: open-loop curve as rendered
    advice,       \* line 165: reg_type, explanation
    gains,        \* lines 173-175: Kp, Ki, Kd
    pid,          \* line 177
    closed_loop,  \* line 178
    plot2,        \* lines 181-188: closed-loop curve as rendered
    error,        \* the exception that ended the run, and where
    plt,          \* matplotlib.pyplot: survives reruns of the script
    call, ret     \* a function of the script applied on its own

results == <<system, Gs_sym, analysis, poles, step_info, plot1, advice,
             gains, pid, closed_loop, plot2>>
script == <<pc, num, den, oracle, results, error, plt>>
vars == <<script, call, ret>>

NoCall == [fn |-> "none"]
NoErr == [at |-> "", kind |-> NoError]

Fresh ==
    /\ system = None /\ Gs_sym = None /\ analysis = None /\ poles = None
    /\ step_info = None /\ plot1 = None /\ advice = None /\ gains = None
    /\ pid = None /\ closed_loop = None /\ plot2 = None
    /\ error = NoErr

Init ==
    /\ pc = "l108"
    /\ num \in Polys /\ den \in Polys
    /\ oracle \in OracleInfos
    /\ Fresh
    /\ plt = [figs |-> 0, lines |-> 0]
    /\ call = NoCall /\ ret = None

\* an exception: Streamlit shows it and the run of the script stops
Raise(at, kind) ==
    /\ pc' = "aborted"
    /\ error' = [at |-> at, kind |-> kind]

\* line 108
Construct ==
    /\ pc = "l108"
    /\ LET tf == TransferFunction(num, den)
       IN IF tf.err # NoError
          THEN Raise("l108", tf.err) /\ UNCHANGED system
          ELSE system' = Some(tf) /\ pc' = "l113" /\ UNCHANGED error
    /\ UNCHANGED <<num, den, oracle, Gs_sym, analysis, poles, step_info, plot1,
                   advice, gains, pid, closed_loop, plot2, plt, call, ret>>

\* lines 113-114
ShowTransfer ==
    /\ pc = "l113"
    /\ LET e == tf_to_sympy(system[1])
       IN IF e.err # NoError
          THEN Raise("l113", e.err) /\ UNCHANGED Gs_sym
          ELSE Gs_sym' = Some(e.value) /\ pc' = "l120" /\ UNCHANGED error
    /\ UNCHANGED <<num, den, oracle, system, analysis, poles, step_info, plot1,
                   advice, gains, pid, closed_loop, plot2, plt, call, ret>>

\* lines 120-129
SymbolicAnalysis ==
    /\ pc = "l120"
    /\ analysis' = Some(symbolic_analysis(num, den))
    /\ pc' = "l141"
    /\ UNCHANGED <<num, den, oracle, system, Gs_sym, poles, step_info, plot1,
                   advice, gains, pid, closed_loop, plot2, error, plt, call, ret>>

\* lines 140-145
Poles ==
    /\ pc = "l141"
    /\ poles' = Some(Len(system[1].den) - 1)
    /\ pc' = "l147"
    /\ UNCHANGED <<num, den, oracle, system, Gs_sym, analysis, step_info, plot1,
                   advice, gains, pid, closed_loop, plot2, error, plt, call, ret>>

\* lines 147-149
StepInfo ==
    /\ pc = "l147"
    /\ IF Improper(system[1])
       THEN Raise("l147", NonProper) /\ UNCHANGED step_info
       ELSE step_info' = Some(oracle) /\ pc' = "l152" /\ UNCHANGED error
    /\ UNCHANGED <<num, den, oracle, system, Gs_sym, analysis, poles, plot1,
                   advice, gains, pid, closed_loop, plot2, plt, call, ret>>

\* lines 152-159
StepResponse ==
    /\ pc = "l152"
    /\ plt' = PltPlot(PltFigure(plt))
    /\ plot1' = Some(Rendered(system[1], plt'))
    /\ pc' = "l165"
    /\ UNCHANGED <<num, den, oracle, system, Gs_sym, analysis, poles, step_info,
                   advice, gains, pid, closed_loop, plot2, error, call, ret>>

\* lines 165-167; conseil_regulateur asks control.step_info again
Advise ==
    /\ pc = "l165"
    /\ advice' = Some(conseil_regulateur(oracle))
    /\ pc' = "l173"
    /\ UNCHANGED <<num, den, oracle, system, Gs_sym, analysis, poles, step_info,
                   plot1, gains, pid, closed_loop, plot2, error, plt, call, ret>>

\* ClosePidLoop that keeps what feedback built whatever its error
ClosePidLoop_swallow ==
    /\ pc = "l173"
    /\ \E kp \in Gains, ki \in Gains, kd \in Gains :
         LET c == create_pid(kp, ki, kd)
             cl == ClosedLoop(c, system[1])
         IN /\ gains' = Some([Kp |-> kp, Ki |-> ki, Kd |-> kd])
            /\ pid' = Some(c)
            /\ closed_loop' = Some(IF cl.err # NoError
                                   THEN [cl EXCEPT !.num = <<0>>, !.den = <<0>>]
                                   ELSE cl)
    /\ pc' = "l181"
    /\ UNCHANGED <<num, den, oracle, system, Gs_sym, analysis, poles, step_info,
                   plot1, advice, plot2, error, plt, call, ret>>

\* lines 173-178: the sliders, pid = create_pid(...), closed_loop = feedback
ClosePidLoop ==
    /\ pc = "l173"
    /\ \E kp \in Gains, ki \in Gains, kd \in Gains :
         LET c == create_pid(kp, ki, kd)
             cl == ClosedLoop(c, system[1])
         IN /\ gains' = Some([Kp |-> kp, Ki |-> ki, Kd |-> kd])
            /\ pid' = Some(c)
            /\ IF cl.err # NoError
               THEN Raise("l178", cl.err) /\ UNCHANGED closed_loop
               ELSE closed_loop' = Some(cl) /\ pc' = "l181" /\ UNCHANGED error
    /\ UNCHANGED <<num, den, oracle, system, Gs_sym, analysis, poles, step_info,
                   plot1, advice, plot2, plt, call, ret>>

\* lines 181-190
ClosedStep ==
    /\ pc = "l181"
    /\ IF Improper(closed_loop[1])
       THEN Raise("l181", NonProper) /\ UNCHANGED <<plot2, plt>>
       ELSE /\ plt' = PltPlot(PltFigure(plt))
            /\ plot2' = Some(Rendered(closed_loop[1], plt'))
            /\ pc' = "done"
            /\ UNCHANGED error
    /\ UNCHANGED <<num, den, oracle, system, Gs_sym, analysis, poles, step_info,
                   plot1, advice, gains, pid, closed_loop, call, ret>>

\* line 190 or an exception: the run is over and the script's namespace is
\* dropped; pyplot, a module of the process, keeps its figures
EndRun ==
    /\ pc \in {"done", "aborted"}
    /\ pc' = "idle"
    /\ num' = <<>> /\ den' = <<>>
    /\ oracle' = [Overshoot |-> Absent, SettlingTime |-> Absent]
    /\ system' = None /\ Gs_sym' = None /\ analysis' = None /\ poles' = None
    /\ step_info' = None /\ plot1' = None /\ advice' = None /\ gains' = None
    /\ pid' = None /\ closed_loop' = None /\ plot2' = None
    /\ error' = NoErr
    /\ UNCHANGED <<plt, call, ret>>

\* a widget changes: Streamlit runs the script again from the top, in the
\* same process
Rerun ==
    /\ pc = "idle"
    /\ call = NoCall
    /\ plt.figs + 2 <= MaxFigs
    /\ pc' = "l108"
    /\ num' \in Polys /\ den' \in Polys
    /\ oracle' \in OracleInfos
    /\ UNCHANGED <<results, error, plt, call, ret>>

Next ==
    \/ Construct \/ ShowTransfer \/ SymbolicAnalysis \/ Poles \/ StepInfo
    \/ StepResponse \/ Advise \/ ClosePidLoop \/ ClosedStep \/ EndRun \/ Rerun

Spec == Init /\ [][Next]_vars

\* ------------------------------------- the functions, one call at a time
ConseilCalls == {[fn |-> "conseil_regulateur", info |-> i] : i \in Infos}
PidCalls == {[fn |-> "create_pid", Kp |-> kp, Ki |-> ki, Kd |-> kd] :
                kp \in Gains, ki \in Gains, kd \in Gains}
LoopCalls == {[fn |-> "closed_loop", controller |-> c, plant |-> p] :
                 c \in Controllers, p \in Plants}
SymCalls == {[fn |-> "symbolic_analysis", num |-> n, den |-> d] :
                n \in Polys, d \in ValidDens}

InitFn ==
    /\ pc = "idle"
    /\ num = <<>> /\ den = <<>>
    /\ oracle = [Overshoot |-> Absent, SettlingTime |-> Absent]
    /\ Fresh
    /\ plt = [figs |-> 0, lines |-> 0]
    /\ call \in ConseilCalls \cup PidCalls \cup LoopCalls \cup SymCalls
    /\ ret = None

CallConseil ==
    /\ call.fn = "conseil_regulateur" /\ ret = None
    /\ ret' = Some(conseil_regulateur(call.info))
    /\ UNCHANGED <<script, call>>

CallCreatePid ==
    /\ call.fn = "create_pid" /\ ret = None
    /\ ret' = Some(create_pid(call.Kp, call.Ki, call.Kd))
    /\ UNCHANGED <<script, call>>

CallClosedLoop ==
    /\ call.fn = "closed_loop" /\ ret = None
    /\ ret' = Some(ClosedLoop(call.controller, call.plant))
    /\ UNCHANGED <<script, call>>

CallSymbolic ==
    /\ call.fn = "symbolic_analysis" /\ ret = None
    /\ ret' = Some(symbolic_analysis(call.num, call.den))
    /\ UNCHANGED <<script, call>>

NextFn == CallConseil \/ CallCreatePid \/ CallClosedLoop \/ CallSymbolic

SpecFn == InitFn /\ [][NextFn]_vars

\* ================================================================ claims
Returned(f) == call.fn = f /\ IsSet(ret)

\* ---------------------------------------------------------------- C1
\* C1: for defined numeric metrics the advisor returns the ladder's result:
\* overshoot < 1 and settling < 2 gives P; otherwise overshoot < 10 gives PI;
\* otherwise overshoot > 20 gives PD; otherwise PID (so 10 and 20 give PID,
\* and overshoot < 1 with settling >= 2 gives PI); each label comes with its
\* own fixed rationale.
C1_Ladder ==
    (/\ Returned("conseil_regulateur")
     /\ call.info.Overshoot.st = "num"
     /\ call.info.SettlingTime.st = "num")
    => LET o == call.info.Overshoot.v
           t == call.info.SettlingTime.v
           r == ret[1]
       IN /\ r.reg_type \in {"P", "PI", "PD", "PID"}
          /\ (r.reg_type = "P") <=> (o < 1 /\ t < 2)
          /\ (r.reg_type = "PI") <=> (~(o < 1 /\ t < 2) /\ o < 10)
          /\ (r.reg_type = "PD") <=> (o > 20)
          /\ (r.reg_type = "PID") <=> (o >= 10 /\ o <= 20)
          /\ (r.reg_type = "P") => r.explanation = RationaleP
          /\ (r.reg_type = "PI") => r.explanation = RationalePI
          /\ (r.reg_type = "PD") => r.explanation = RationalePD
          /\ (r.reg_type = "PID") => r.explanation = RationalePID

C1_BoundaryReached ==
    /\ Returned("conseil_regulateur")
    /\ call.info.Overshoot = Num(10)
    /\ call.info.SettlingTime = Num(3)
    /\ ret[1].reg_type = "PID"

\* ---------------------------------------------------------------- C2
\* an undefined metric: no entry in the dictionary, or NaN
Undefined(m) == m.st \in {"absent", "nan"}

\* C2: when the overshoot is undefined the advisor returns no topology (it
\* fails instead of using a default).
C2_MissingOvershootFails ==
    (Returned("conseil_regulateur") /\ Undefined(call.info.Overshoot))
    => ret[1].reg_type \notin {"P", "PI", "PD", "PID"}

\* ---------------------------------------------------------------- C3
\* C3 as claimed: create_pid returns numerator [Kd, Kp, Ki], a zero Kd kept
\* as a leading 0, and denominator [1, 0] (stated for gains that are not all
\* zero, where the numerator is not the zero polynomial).
C3_NumeratorKept ==
    (Returned("create_pid") /\ <<call.Kd, call.Kp, call.Ki>> # <<0, 0, 0>>)
    => /\ ret[1].num = <<call.Kd, call.Kp, call.Ki>>
       /\ ret[1].den = <<1, 0>>

\* C3 amended: the numerator is [Kd, Kp, Ki] without its leading zeros
\* (exactly [Kd, Kp, Ki] when Kd # 0) over the denominator [1, 0]; with all
\* three gains zero the result is the system 0/1.
C3_NumeratorTrimmed ==
    Returned("create_pid")
    => LET r == ret[1]
           kp == call.Kp
           ki == call.Ki
           kd == call.Kd
       IN /\ r.err = NoError
          /\ (kd # 0) => (r.num = <<kd, kp, ki>> /\ r.den = <<1, 0>>)
          /\ (kd = 0 /\ kp # 0) => (r.num = <<kp, ki>> /\ r.den = <<1, 0>>)
          /\ (kd = 0 /\ kp = 0 /\ ki # 0) => (r.num = <<ki>> /\ r.den = <<1, 0>>)
          /\ (kd = 0 /\ kp = 0 /\ ki = 0) => (r.num = <<0>> /\ r.den = <<1>>)

C3_ZeroKdReached ==
    /\ Returned("create_pid")
    /\ call.Kp = 1 /\ call.Ki = 1 /\ call.Kd = 0
    /\ ret[1].num = <<1, 1>>

\* ---------------------------------------------------------------- C4
LoopNum(c, p) == PolyMul(c.num, p.num)
LoopDen(c, p) == PolyAdd(PolyMul(c.den, p.den), PolyMul(c.num, p.num))
SamePoly(p, q) == Trim(p) = Trim(q)

\* C4 as claimed: for every controller and plant the closed loop has
\* numerator Nc.Np and denominator Dc.Dp + Nc.Np (stated for plants whose
\* denominator is not a constant).
C4_LoopFormula ==
    (Returned("closed_loop") /\ ret[1].err = NoError /\ Len(call.plant.den) > 1)
    => /\ SamePoly(ret[1].num, LoopNum(call.controller, call.plant))
       /\ SamePoly(ret[1].den, LoopDen(call.controller, call.plant))

\* C4 amended: when Nc.Np is not the zero polynomial the closed loop has
\* numerator Nc.Np and denominator Dc.Dp + Nc.Np (leading zeros removed,
\* nothing cancelled); when Nc.Np is zero the result is the system 0/1; the
\* controller 1/1 with the plant 1/s gives [1]/[1,1].
C4_LoopFormulaNonzero ==
    (Returned("closed_loop") /\ ret[1].err = NoError)
    => LET c == call.controller
           p == call.plant
           r == ret[1]
       IN /\ ~IsZero(LoopNum(c, p))
             => (r.num = Trim(LoopNum(c, p)) /\ r.den = Trim(LoopDen(c, p)))
          /\ IsZero(LoopNum(c, p)) => (r.num = <<0>> /\ r.den = <<1>>)
          /\ (c.num = <<1>> /\ c.den = <<1>> /\ p.num = <<1>> /\ p.den = <<1, 0>>)
             => (r.num = <<1>> /\ r.den = <<1, 1>>)

\* a closed loop whose numerator and denominator share a factor, returned
\* with the factor still in both
C4_CommonFactorKept ==
    /\ Returned("closed_loop") /\ ret[1].err = NoError
    /\ ~IsZero(ret[1].num)
    /\ Len(PolyGcd(ret[1].num, ret[1].den)) > 1
    /\ ret[1].den = Trim(LoopDen(call.controller, call.plant))

\* ---------------------------------------------------------------- C5
LoopDenDegree(c, p) == Degree(c.den) + Degree(p.den)
LoopNumDegree(c, p) == Degree(c.num) + Degree(p.num)

Proportional(p1, q1, p2, q2) ==
    /\ Len(p1) = Len(p2) /\ Len(q1) = Len(q2)
    /\ LET v == p1 \o q1
           w == p2 \o q2
       IN \A i \in 1..Len(v), j \in 1..Len(v) : v[i] * w[j] = v[j] * w[i]

Coprime(p, q) == Len(PolyGcd(Trim(p), Trim(q))) = 1

Running == pc # "idle"
Terminated == pc \in {"done", "aborted"}

\* 4.1 of the specification: a denominator that is empty or all zero
ValidSystem(n, d) == Len(d) > 0 /\ ~IsZero(d)

NothingComputed ==
    /\ Gs_sym = None /\ analysis = None /\ poles = None /\ step_info = None
    /\ plot1 = None /\ advice = None /\ pid = None /\ closed_loop = None
    /\ plot2 = None

\* ---------------------------------------------------------------- C6
\* C6: in a run whose system is invalid the error is raised at line 108,
\* before anything is computed: no expression, poles, step response,
\* recommendation, PID or closed loop exists in that run.  (The sliders of
\* lines 173-175 deliver only numbers of their range: no run has invalid
\* gains.)
C6_ValidationFirst ==
    (Running /\ ~ValidSystem(num, den))
    => /\ system = None /\ NothingComputed
       /\ pc \in {"l108", "aborted"}
       /\ pc = "aborted" => error = [at |-> "l108", kind |-> ZeroDenominator]

C6_InvalidSystemRejected ==
    /\ pc = "aborted" /\ ~ValidSystem(num, den)
    /\ error.at = "l108" /\ NothingComputed

\* ---------------------------------------------------------------- C7
\* a field of the result set carries a marker: it was computed, or it is
\* the one whose computation failed
Marked(field, at) == IsSet(field) \/ error.at = at

\* C7: a run on a valid system ends with every field marked, and the fields
\* that do not depend on a failed one (the symbolic analysis, the poles, the
\* PID built from the gains) are successes.
C7_PartialResults ==
    (Terminated /\ IsSet(system))
    => /\ Marked(Gs_sym, "l113") /\ Marked(analysis, "l120")
       /\ Marked(poles, "l141") /\ Marked(step_info, "l147")
       /\ Marked(plot1, "l152") /\ Marked(advice, "l165")
       /\ Marked(pid, "l173") /\ Marked(closed_loop, "l178")
       /\ Marked(plot2, "l181")
       /\ IsSet(analysis) /\ IsSet(poles) /\ IsSet(pid)

\* ---------------------------------------------------------------- C8
ZeroLoop ==
    /\ IsSet(pid) /\ IsSet(system)
    /\ IsZero(LoopDen(pid[1], system[1]))

\* C8: when Dc.Dp + Nc.Np is the zero polynomial line 178 raises and the run
\* ends there; no closed loop with an all-zero denominator is stored or
\* handed to the step response.
C8_ZeroLoopRejected ==
    /\ IsSet(closed_loop)
       => (Len(closed_loop[1].den) > 0 /\ ~IsZero(closed_loop[1].den))
    /\ IsSet(plot2) => ~IsZero(plot2[1].of.den)
    /\ ZeroLoop
       => /\ pc = "aborted"
          /\ error = [at |-> "l178", kind |-> ZeroDenominator]
          /\ closed_loop = None /\ plot2 = None

C8_ZeroLoopReached ==
    /\ ZeroLoop /\ pc = "aborted" /\ error.at = "l178"
    /\ closed_loop = None

\* ---------------------------------------------------------------- C9
\* the outputs of a complete run as a function of its inputs alone
RunOutput(n, d, o, g) ==
    LET sys == TransferFunction(n, d)
        c == create_pid(g.Kp, g.Ki, g.Kd)
        cl == ClosedLoop(c, sys)
    IN <<Some(sys), Some(tf_to_sympy(sys).value), Some(symbolic_analysis(n, d)),
         Some(Len(sys.den) - 1), Some(o), Some([of |-> sys, lines |-> 1]),
         Some(conseil_regulateur(o)), Some(g), Some(c), Some(cl),
         Some([of |-> cl, lines |-> 1])>>

====
